---- MODULE Spec2Model ----
(***************************************************************************)
(* Model of ansi2png.c: main() and lookup_font().                          *)
(*                                                                         *)
(* C strings are sequences of character codes (ASCII), without the         *)
(* terminating NUL; reading past the end of a string yields NUL (0).       *)
(* A value returned by getenv() is a record [set, str]: set = FALSE is the *)
(* NULL pointer.  The library's font and mode identifiers are kept         *)
(* symbolic, under the names of ansilove.h.                                *)
(***************************************************************************)
EXTENDS Integers, Sequences, FiniteSets, TLC

VARIABLES pc,            \* position in main
          argc,          \* argument count
          env,           \* what getenv returned, per variable
          consulted,     \* the variables getenv was called on
          initOptions,   \* the options as ansilove_init left them
          options,       \* struct ansilove_options
          renderOptions, \* the options ansilove_ansi was called with
          calls,         \* library calls made, in order
          results,       \* return of each checked library call, in order
          stderr,        \* lines written to stderr
          exitCode       \* return value of main, -1 while running

vars == <<pc, argc, env, consulted, initOptions, options, renderOptions,
          calls, results, stderr, exitCode>>

\* ------------------------------------------------------------------ bounds
\* argc ranges over 1..MaxArgc
MaxArgc == 4
\* letter-case variants 0..MaxCaseVariant of every font_map name are inputs
MaxCaseVariant == 2

\* ------------------------------------------------------------- C strings
Null == [set |-> FALSE, str |-> <<>>]
Val(s) == [set |-> TRUE, str |-> s]

\* byte at 0-based offset i of a NUL-terminated string
CharAt(s, i) == IF i < Len(s) THEN s[i + 1] ELSE 0

tolower(c) == IF c >= 65 /\ c <= 90 THEN c + 32 ELSE c

isspace(c) == c = 32 \/ (c >= 9 /\ c <= 13)

isdigit(c) == c >= 48 /\ c <= 57

RECURSIVE CaseCmpFrom(_, _, _)
CaseCmpFrom(a, b, i) ==
    LET ca == tolower(CharAt(a, i))
        cb == tolower(CharAt(b, i))
    IN  IF ca # cb THEN ca - cb
        ELSE IF ca = 0 THEN 0
        ELSE CaseCmpFrom(a, b, i + 1)

RECURSIVE CmpFrom(_, _, _)
CmpFrom(a, b, i) ==
    LET ca == CharAt(a, i)
        cb == CharAt(b, i)
    IN  IF ca # cb THEN ca - cb
        ELSE IF ca = 0 THEN 0
        ELSE CmpFrom(a, b, i + 1)

strcmp(a, b) == CmpFrom(a, b, 0)

\* mutant of strcasecmp: the comparison is case-sensitive
strcasecmp_sensitive(a, b) == CmpFrom(a, b, 0)

strcasecmp(a, b) == CaseCmpFrom(a, b, 0)

RECURSIVE SkipSpace(_, _)
SkipSpace(s, i) == IF isspace(CharAt(s, i)) THEN SkipSpace(s, i + 1) ELSE i

RECURSIVE Digits(_, _, _)
Digits(s, i, acc) ==
    IF isdigit(CharAt(s, i))
    THEN Digits(s, i + 1, acc * 10 + (CharAt(s, i) - 48))
    ELSE acc

\* atoi: leading white space, an optional sign, then decimal digits up to
\* the first other byte; no digits gives 0
atoi(s) ==
    LET i == SkipSpace(s, 0)
        c == CharAt(s, i)
    IN  IF c = 45 THEN 0 - Digits(s, i + 1, 0)
        ELSE IF c = 43 THEN Digits(s, i + 1, 0)
        ELSE Digits(s, i, 0)

\* mutant of CastU8: the value is stored without narrowing
CastU8_wide(n) == n

\* (uint8_t)n
CastU8(n) == n % 256

\* (int16_t)n, two's complement wrap
CastI16(n) == LET m == n % 65536 IN IF m >= 32768 THEN m - 65536 ELSE m

\* ------------------------------------------------------------- font table
font_map ==
    <<
       [name |-> <<67, 80, 52, 51, 55>>,
        value |-> "ANSILOVE_FONT_CP437"],  \* "CP437"
       [name |-> <<67, 80, 52, 51, 55, 95, 56, 48, 120, 53, 48>>,
        value |-> "ANSILOVE_FONT_CP437_80x50"],  \* "CP437_80x50"
       [name |-> <<67, 80, 55, 51, 55>>,
        value |-> "ANSILOVE_FONT_CP737"],  \* "CP737"
       [name |-> <<67, 80, 55, 55, 53>>,
        value |-> "ANSILOVE_FONT_CP775"],  \* "CP775"
       [name |-> <<67, 80, 56, 53, 48>>,
        value |-> "ANSILOVE_FONT_CP850"],  \* "CP850"
       [name |-> <<67, 80, 56, 53, 50>>,
        value |-> "ANSILOVE_FONT_CP852"],  \* "CP852"
       [name |-> <<67, 80, 56, 53, 53>>,
        value |-> "ANSILOVE_FONT_CP855"],  \* "CP855"
       [name |-> <<67, 80, 56, 53, 55>>,
        value |-> "ANSILOVE_FONT_CP857"],  \* "CP857"
       [name |-> <<67, 80, 56, 54, 48>>,
        value |-> "ANSILOVE_FONT_CP860"],  \* "CP860"
       [name |-> <<67, 80, 56, 54, 49>>,
        value |-> "ANSILOVE_FONT_CP861"],  \* "CP861"
       [name |-> <<67, 80, 56, 54, 50>>,
        value |-> "ANSILOVE_FONT_CP862"],  \* "CP862"
       [name |-> <<67, 80, 56, 54, 51>>,
        value |-> "ANSILOVE_FONT_CP863"],  \* "CP863"
       [name |-> <<67, 80, 56, 54, 53>>,
        value |-> "ANSILOVE_FONT_CP865"],  \* "CP865"
       [name |-> <<67, 80, 56, 54, 54>>,
        value |-> "ANSILOVE_FONT_CP866"],  \* "CP866"
       [name |-> <<67, 80, 56, 54, 57>>,
        value |-> "ANSILOVE_FONT_CP869"],  \* "CP869"
       [name |-> <<84, 69, 82, 77, 73, 78, 85, 83>>,
        value |-> "ANSILOVE_FONT_TERMINUS"],  \* "TERMINUS"
       [name |-> <<83, 80, 76, 69, 69, 78>>,
        value |-> "ANSILOVE_FONT_SPLEEN"],  \* "SPLEEN"
       [name |-> <<77, 73, 67, 82, 79, 75, 78, 73, 71, 72, 84>>,
        value |-> "ANSILOVE_FONT_MICROKNIGHT"],  \* "MICROKNIGHT"
       [name |-> <<77, 73, 67, 82, 79, 75, 78, 73, 71, 72, 84, 95, 80, 76, 85, 83>>,
        value |-> "ANSILOVE_FONT_MICROKNIGHT_PLUS"],  \* "MICROKNIGHT_PLUS"
       [name |-> <<77, 79, 83, 79, 85, 76>>,
        value |-> "ANSILOVE_FONT_MOSOUL"],  \* "MOSOUL"
       [name |-> <<80, 79, 84, 95, 78, 79, 79, 68, 76, 69>>,
        value |-> "ANSILOVE_FONT_POT_NOODLE"],  \* "POT_NOODLE"
       [name |-> <<84, 79, 80, 65, 90>>,
        value |-> "ANSILOVE_FONT_TOPAZ"],  \* "TOPAZ"
       [name |-> <<84, 79, 80, 65, 90, 95, 80, 76, 85, 83>>,
        value |-> "ANSILOVE_FONT_TOPAZ_PLUS"],  \* "TOPAZ_PLUS"
       [name |-> <<84, 79, 80, 65, 90, 53, 48, 48>>,
        value |-> "ANSILOVE_FONT_TOPAZ500"],  \* "TOPAZ500"
       [name |-> <<84, 79, 80, 65, 90, 53, 48, 48, 95, 80, 76, 85, 83>>,
        value |-> "ANSILOVE_FONT_TOPAZ500_PLUS"]   \* "TOPAZ500_PLUS"
    >>

FontIndexes == 1..Len(font_map)

\* the loop of lookup_font: index of the first entry whose name compares
\* equal from entry i on, 0 when the NULL sentinel is reached
RECURSIVE FindFont(_, _)
FindFont(name, i) ==
    IF i > Len(font_map) THEN 0
    ELSE IF strcasecmp(name, font_map[i].name) = 0 THEN i
    ELSE FindFont(name, i + 1)

UnknownFontLine(name) == [msg |-> "unknown font, using CP437", arg |-> name]

\* mutant of lookup_font: an unknown name selects the last table entry
lookup_font_last(v) ==
    IF ~v.set THEN [value |-> "ANSILOVE_FONT_CP437", warn |-> <<>>]
    ELSE LET i == FindFont(v.str, 1)
         IN  IF i # 0 THEN [value |-> font_map[i].value, warn |-> <<>>]
             ELSE [value |-> font_map[Len(font_map)].value,
                   warn  |-> <<UnknownFontLine(v.str)>>]

\* lookup_font: the identifier returned and the lines written to stderr
lookup_font(v) ==
    IF ~v.set THEN [value |-> "ANSILOVE_FONT_CP437", warn |-> <<>>]
    ELSE LET i == FindFont(v.str, 1)
         IN  IF i # 0 THEN [value |-> font_map[i].value, warn |-> <<>>]
             ELSE [value |-> "ANSILOVE_FONT_CP437",
                   warn  |-> <<UnknownFontLine(v.str)>>]

\* ------------------------------------------------------------------ inputs
\* variant k of a table name: 0 as written, 1 all lower case, k >= 2 lower
\* case at the offsets that are multiples of k
CaseVariant(s, k) ==
    [i \in 1..Len(s) |->
        IF k = 0 THEN s[i]
        ELSE IF k = 1 \/ (i - 1) % k = 0 THEN tolower(s[i])
        ELSE s[i]]

UnknownFontNames ==
    { <<>>,                                              \* ""
      <<84, 79, 80, 65, 90, 95>>,                        \* "TOPAZ_"
      <<67, 80, 52, 51, 55, 95, 56, 48>>,                \* "CP437_80"
      <<86, 71, 65>>,                                    \* "VGA"
      <<116, 111, 112, 97, 122, 53, 48, 48, 95, 112, 108, 117>> }
                                                         \* "topaz500_plu"

FontInputs ==
    {Null}
    \cup { Val(CaseVariant(font_map[i].name, k)) :
             i \in FontIndexes, k \in 0..MaxCaseVariant }
    \cup { Val(s) : s \in UnknownFontNames }

ScaleInputs ==
    { Null,
      Val(<<50>>),             \* "2"
      Val(<<50, 53, 54>>),     \* "256"
      Val(<<45, 49>>) }        \* "-1"

BitsInputs ==
    { Null,
      Val(<<57>>),             \* "9"
      Val(<<120, 56>>) }       \* "x8"

ColumnsInputs ==
    { Null,
      Val(<<49, 54, 48>>),             \* "160"
      Val(<<51, 50, 55, 54, 56>>),     \* "32768"
      Val(<<32, 43, 56, 48>>) }        \* " +80"

ModeInputs ==
    { Null,
      Val(<<99, 101, 100>>),                                     \* "ced"
      Val(<<84, 82, 65, 78, 83, 80, 65, 82, 69, 78, 84>>),       \* "TRANSPARENT"
      Val(<<87, 111, 114, 107, 66, 101, 110, 99, 104>>),         \* "WorkBench"
      Val(<<99, 101, 100, 120>>),                                \* "cedx"
      Val(<<>>) }                                                \* ""

IceInputs ==
    { Null,
      Val(<<49>>),                     \* "1"
      Val(<<48>>),                     \* "0"
      Val(<<116, 114, 117, 101>>),     \* "true"
      Val(<<>>),                       \* ""
      Val(<<48, 49>>),                 \* "01"
      Val(<<49, 32>>) }                \* "1 "

\* ---------------------------------------------------------- library state
\* struct ansilove_options before ansilove_init has written it
Uninitialized ==
    [font |-> "?", scale_factor |-> 0, bits |-> 0, columns |-> 0,
     mode |-> "?", icecolors |-> FALSE]

\* the options ansilove_init may store: the library's defaults
InitOptions ==
    { [font |-> "init", scale_factor |-> s, bits |-> 8, columns |-> 0,
       mode |-> "init", icecolors |-> FALSE] : s \in {0, 1} }

Line(m) == [msg |-> m, arg |-> <<>>]

\* a checked library call and whether it returned success (not -1)
Returned(call, ok) == [call |-> call, ok |-> ok]

EnvNames == {"ANSILOVE_FONT", "ANSILOVE_SCALE", "ANSILOVE_BITS",
             "ANSILOVE_COLUMNS", "ANSILOVE_MODE", "ANSILOVE_ICECOLORS"}

\* ------------------------------------------------------------------- Init
Init ==
    /\ pc = "start"
    /\ argc \in 1..MaxArgc
    /\ env = [n \in EnvNames |-> Null]
    /\ consulted = {}
    /\ initOptions = Uninitialized
    /\ options = Uninitialized
    /\ renderOptions = Uninitialized
    /\ calls = <<>>
    /\ results = <<>>
    /\ stderr = <<>>
    /\ exitCode = -1

\* return n from main
Exit(n) == pc' = "done" /\ exitCode' = n

\* val = getenv(name), the environment holding v
Getenv(name, v) ==
    /\ env' = [env EXCEPT ![name] = v]
    /\ consulted' = consulted \cup {name}

\* ---------------------------------------------------------------- actions
\* mutant of CheckArgs: only too few arguments are rejected
CheckArgs_atleast ==
    /\ pc = "start"
    /\ IF argc < 3
       THEN /\ stderr' = Append(stderr, Line("usage"))
            /\ Exit(1)
       ELSE /\ pc' = "init"
            /\ UNCHANGED <<stderr, exitCode>>
    /\ UNCHANGED <<argc, env, consulted, initOptions, options,
                   renderOptions, calls, results>>

\* if (argc != 3) { usage; return 1; }
CheckArgs ==
    /\ pc = "start"
    /\ IF argc # 3
       THEN /\ stderr' = Append(stderr, Line("usage"))
            /\ Exit(1)
       ELSE /\ pc' = "init"
            /\ UNCHANGED <<stderr, exitCode>>
    /\ UNCHANGED <<argc, env, consulted, initOptions, options,
                   renderOptions, calls, results>>

\* if (ansilove_init(&ctx, &options) == -1) { "init failed"; return 1; }
AnsiloveInit ==
    /\ pc = "init"
    /\ \E ok \in BOOLEAN, d \in InitOptions :
         /\ calls' = Append(calls, "init")
         /\ results' = Append(results, Returned("init", ok))
         /\ IF ok
            THEN /\ options' = d
                 /\ initOptions' = d
                 /\ pc' = "font"
                 /\ UNCHANGED <<stderr, exitCode>>
            ELSE /\ stderr' = Append(stderr, Line("init failed"))
                 /\ Exit(1)
                 /\ UNCHANGED <<options, initOptions>>
    /\ UNCHANGED <<argc, env, consulted, renderOptions>>

\* options.font = lookup_font(getenv("ANSILOVE_FONT"));
SetFont ==
    /\ pc = "font"
    /\ \E v \in FontInputs :
         /\ Getenv("ANSILOVE_FONT", v)
         /\ options' = [options EXCEPT !.font = lookup_font(v).value]
         /\ stderr' = stderr \o lookup_font(v).warn
    /\ pc' = "scale"
    /\ UNCHANGED <<argc, initOptions, renderOptions, calls, results, exitCode>>

\* val = getenv("ANSILOVE_SCALE"); if (val) scale_factor = (uint8_t)atoi(val);
SetScale ==
    /\ pc = "scale"
    /\ \E v \in ScaleInputs :
         /\ Getenv("ANSILOVE_SCALE", v)
         /\ options' = IF v.set
                       THEN [options EXCEPT !.scale_factor = CastU8(atoi(v.str))]
                       ELSE options
    /\ pc' = "bits"
    /\ UNCHANGED <<argc, initOptions, renderOptions, calls, results, stderr,
                   exitCode>>

\* val = getenv("ANSILOVE_BITS"); if (val) bits = (uint8_t)atoi(val);
SetBits ==
    /\ pc = "bits"
    /\ \E v \in BitsInputs :
         /\ Getenv("ANSILOVE_BITS", v)
         /\ options' = IF v.set
                       THEN [options EXCEPT !.bits = CastU8(atoi(v.str))]
                       ELSE options
    /\ pc' = "columns"
    /\ UNCHANGED <<argc, initOptions, renderOptions, calls, results, stderr,
                   exitCode>>

\* val = getenv("ANSILOVE_COLUMNS"); if (val) columns = (int16_t)atoi(val);
SetColumns ==
    /\ pc = "columns"
    /\ \E v \in ColumnsInputs :
         /\ Getenv("ANSILOVE_COLUMNS", v)
         /\ options' = IF v.set
                       THEN [options EXCEPT !.columns = CastI16(atoi(v.str))]
                       ELSE options
    /\ pc' = "mode"
    /\ UNCHANGED <<argc, initOptions, renderOptions, calls, results, stderr,
                   exitCode>>

ModeCed         == <<99, 101, 100>>                                  \* "ced"
ModeTransparent == <<116, 114, 97, 110, 115, 112, 97, 114, 101, 110, 116>>
                                                                     \* "transparent"
ModeWorkbench   == <<119, 111, 114, 107, 98, 101, 110, 99, 104>>     \* "workbench"

\* mutant of ParseMode: an unrecognised token resets the mode
ParseMode_reset(v, old) ==
    IF ~v.set THEN old
    ELSE IF strcasecmp(v.str, ModeCed) = 0 THEN "ANSILOVE_MODE_CED"
    ELSE IF strcasecmp(v.str, ModeTransparent) = 0 THEN "ANSILOVE_MODE_TRANSPARENT"
    ELSE IF strcasecmp(v.str, ModeWorkbench) = 0 THEN "ANSILOVE_MODE_WORKBENCH"
    ELSE "ANSILOVE_MODE_CED"

\* the if / else-if chain on ANSILOVE_MODE: the mode after it
ParseMode(v, old) ==
    IF ~v.set THEN old
    ELSE IF strcasecmp(v.str, ModeCed) = 0 THEN "ANSILOVE_MODE_CED"
    ELSE IF strcasecmp(v.str, ModeTransparent) = 0 THEN "ANSILOVE_MODE_TRANSPARENT"
    ELSE IF strcasecmp(v.str, ModeWorkbench) = 0 THEN "ANSILOVE_MODE_WORKBENCH"
    ELSE old

\* val = getenv("ANSILOVE_MODE"); if (val) { ... }
SetMode ==
    /\ pc = "mode"
    /\ \E v \in ModeInputs :
         /\ Getenv("ANSILOVE_MODE", v)
         /\ options' = [options EXCEPT !.mode = ParseMode(v, options.mode)]
    /\ pc' = "icecolors"
    /\ UNCHANGED <<argc, initOptions, renderOptions, calls, results, stderr,
                   exitCode>>

\* mutant of IceEnabled: the value is parsed as a number
IceEnabled_atoi(v) == v.set /\ atoi(v.str) = 1

\* val && strcmp(val, "1") == 0
IceEnabled(v) == v.set /\ strcmp(v.str, <<49>>) = 0

\* val = getenv("ANSILOVE_ICECOLORS"); if (...) options.icecolors = true;
SetIcecolors ==
    /\ pc = "icecolors"
    /\ \E v \in IceInputs :
         /\ Getenv("ANSILOVE_ICECOLORS", v)
         /\ options' = IF IceEnabled(v)
                       THEN [options EXCEPT !.icecolors = TRUE]
                       ELSE options
    /\ pc' = "load"
    /\ UNCHANGED <<argc, initOptions, renderOptions, calls, results, stderr,
                   exitCode>>

\* the body of a failure branch: fprintf(stderr, msg, ansilove_error(&ctx));
\* ansilove_clean(&ctx); return 1;
Fail(call, msg) ==
    /\ calls' = calls \o <<call, "error", "clean">>
    /\ results' = Append(results, Returned(call, FALSE))
    /\ stderr' = Append(stderr, Line(msg))
    /\ Exit(1)

\* mutant of LoadFile: the failure branch returns without ansilove_clean
LoadFile_noclean ==
    /\ pc = "load"
    /\ \E ok \in BOOLEAN :
         IF ok
         THEN /\ calls' = Append(calls, "loadfile")
              /\ results' = Append(results, Returned("loadfile", TRUE))
              /\ pc' = "render"
              /\ UNCHANGED <<stderr, exitCode>>
         ELSE /\ calls' = calls \o <<"loadfile", "error">>
              /\ results' = Append(results, Returned("loadfile", FALSE))
              /\ stderr' = Append(stderr, Line("load failed"))
              /\ Exit(1)
    /\ UNCHANGED <<argc, env, consulted, initOptions, options, renderOptions>>

\* if (ansilove_loadfile(&ctx, argv[1]) == -1) { ... }
LoadFile ==
    /\ pc = "load"
    /\ \E ok \in BOOLEAN :
         IF ok
         THEN /\ calls' = Append(calls, "loadfile")
              /\ results' = Append(results, Returned("loadfile", TRUE))
              /\ pc' = "render"
              /\ UNCHANGED <<stderr, exitCode>>
         ELSE Fail("loadfile", "load failed")
    /\ UNCHANGED <<argc, env, consulted, initOptions, options, renderOptions>>

\* mutant of Render: the failure is reported but the run goes on to save
Render_continue ==
    /\ pc = "render"
    /\ renderOptions' = options
    /\ \E ok \in BOOLEAN :
         IF ok
         THEN /\ calls' = Append(calls, "ansi")
              /\ results' = Append(results, Returned("ansi", TRUE))
              /\ pc' = "save"
              /\ UNCHANGED <<stderr, exitCode>>
         ELSE /\ calls' = calls \o <<"ansi", "error">>
              /\ results' = Append(results, Returned("ansi", FALSE))
              /\ stderr' = Append(stderr, Line("render failed"))
              /\ pc' = "save"
              /\ UNCHANGED exitCode
    /\ UNCHANGED <<argc, env, consulted, initOptions, options>>

\* mutant of Render: the failure branch carries the message of the load branch
Render_loadmsg ==
    /\ pc = "render"
    /\ renderOptions' = options
    /\ \E ok \in BOOLEAN :
         IF ok
         THEN /\ calls' = Append(calls, "ansi")
              /\ results' = Append(results, Returned("ansi", TRUE))
              /\ pc' = "save"
              /\ UNCHANGED <<stderr, exitCode>>
         ELSE Fail("ansi", "load failed")
    /\ UNCHANGED <<argc, env, consulted, initOptions, options>>

\* if (ansilove_ansi(&ctx, &options) == -1) { ... }
Render ==
    /\ pc = "render"
    /\ renderOptions' = options
    /\ \E ok \in BOOLEAN :
         IF ok
         THEN /\ calls' = Append(calls, "ansi")
              /\ results' = Append(results, Returned("ansi", TRUE))
              /\ pc' = "save"
              /\ UNCHANGED <<stderr, exitCode>>
         ELSE Fail("ansi", "render failed")
    /\ UNCHANGED <<argc, env, consulted, initOptions, options>>

\* mutant of SaveFile: the failure branch returns 0
SaveFile_zero ==
    /\ pc = "save"
    /\ \E ok \in BOOLEAN :
         IF ok
         THEN /\ calls' = calls \o <<"savefile", "clean">>
              /\ results' = Append(results, Returned("savefile", TRUE))
              /\ Exit(0)
              /\ UNCHANGED stderr
         ELSE /\ calls' = calls \o <<"savefile", "error", "clean">>
              /\ results' = Append(results, Returned("savefile", FALSE))
              /\ stderr' = Append(stderr, Line("save failed"))
              /\ Exit(0)
    /\ UNCHANGED <<argc, env, consulted, initOptions, options, renderOptions>>

\* if (ansilove_savefile(&ctx, argv[2]) == -1) { ... }
\* ansilove_clean(&ctx); return 0;
SaveFile ==
    /\ pc = "save"
    /\ \E ok \in BOOLEAN :
         IF ok
         THEN /\ calls' = calls \o <<"savefile", "clean">>
              /\ results' = Append(results, Returned("savefile", TRUE))
              /\ Exit(0)
              /\ UNCHANGED stderr
         ELSE Fail("savefile", "save failed")
    /\ UNCHANGED <<argc, env, consulted, initOptions, options, renderOptions>>

Next ==
    \/ CheckArgs
    \/ AnsiloveInit
    \/ SetFont
    \/ SetScale
    \/ SetBits
    \/ SetColumns
    \/ SetMode
    \/ SetIcecolors
    \/ LoadFile
    \/ Render
    \/ SaveFile

Spec == Init /\ [][Next]_vars

\* ------------------------------------------------------------ properties
Count(seq, x) == Cardinality({i \in DOMAIN seq : seq[i] = x})

Called(c) == \E i \in DOMAIN calls : calls[i] = c

Succeeded(c) == \E i \in DOMAIN results : results[i] = Returned(c, TRUE)

Failed(c) == \E i \in DOMAIN results : results[i] = Returned(c, FALSE)

Wrote(m) == \E i \in DOMAIN stderr : stderr[i].msg = m

Exited == pc = "done"

\* position of a library call in the lifecycle
Rank(c) ==
    CASE c = "init"     -> 1
      [] c = "loadfile" -> 2
      [] c = "ansi"     -> 3
      [] c = "savefile" -> 4
      [] c = "error"    -> 5
      [] c = "clean"    -> 6

StageLines == {"usage", "init failed", "load failed", "render failed",
               "save failed"}

StageLineCount == Cardinality({i \in DOMAIN stderr : stderr[i].msg \in StageLines})

AllStagesSucceeded ==
    /\ Succeeded("init")
    /\ Succeeded("loadfile")
    /\ Succeeded("ansi")
    /\ Succeeded("savefile")

\* C1 as stated: on every exit path, usage error and init failure
\* included, ansilove_clean has been called exactly once.
C1_ReleasedOnceOnEveryExit == Exited => Count(calls, "clean") = 1

\* C1 amended: ansilove_clean is called exactly once, as the last library
\* call, on every exit path reached after ansilove_init succeeded, and not
\* at all when the run ends on the usage error or on the failure of init;
\* it is never called twice and never while the run is still going.
C1_ReleasedOnceAfterInit ==
    /\ Count(calls, "clean") <= 1
    /\ ~Exited => ~Called("clean")
    /\ Exited /\ Succeeded("init") =>
          /\ Count(calls, "clean") = 1
          /\ calls[Len(calls)] = "clean"
    /\ Exited /\ ~Succeeded("init") => ~Called("clean")

C1_Witness ==
    /\ Exited
    /\ Failed("ansi")
    /\ Count(calls, "clean") = 1

\* C2: the library calls are made in the order init, loadfile, ansi,
\* savefile, (error,) clean, each at most once; loadfile only after init
\* succeeded, ansi only after loadfile succeeded, savefile only after ansi
\* succeeded; nothing is called after clean.
C2_CallOrder ==
    /\ \A i, j \in DOMAIN calls : i < j => Rank(calls[i]) < Rank(calls[j])
    /\ calls # <<>> => calls[1] = "init"
    /\ Called("loadfile") => Succeeded("init")
    /\ Called("ansi") => Succeeded("loadfile")
    /\ Called("savefile") => Succeeded("ansi")
    /\ Called("clean") => calls[Len(calls)] = "clean"

C2_Witness ==
    /\ Exited
    /\ calls = <<"init", "loadfile", "ansi", "error", "clean">>

\* C3: main returns 0 exactly when argc is 3 and init, loadfile, ansi and
\* savefile all succeeded; every other run returns 1, whatever the
\* environment holds.
C3_ExitCode ==
    Exited =>
      /\ exitCode \in {0, 1}
      /\ exitCode = 0 <=> (argc = 3 /\ AllStagesSucceeded)

C3_Witness ==
    /\ Exited
    /\ exitCode = 0
    /\ env["ANSILOVE_FONT"].set
    /\ env["ANSILOVE_SCALE"].set
    /\ env["ANSILOVE_MODE"].set

\* C4: with argc other than 3 the run writes the usage line, returns 1,
\* calls none of init, loadfile, ansi, savefile, clean and reads no
\* environment variable.
C4_UsageError ==
    argc # 3 =>
      /\ calls = <<>>
      /\ results = <<>>
      /\ consulted = {}
      /\ pc \in {"start", "done"}
      /\ Exited => exitCode = 1 /\ stderr = <<Line("usage")>>

C4_Witness == Exited /\ argc > 3 /\ stderr = <<Line("usage")>>

\* the string with every letter in lower case
Lower(s) == [i \in 1..Len(s) |-> tolower(s[i])]

\* the table names in lower case, by table index
LowerFontName == [i \in FontIndexes |-> Lower(font_map[i].name)]

LowerFontNames == { LowerFontName[i] : i \in FontIndexes }

FontKnown(s) == Lower(s) \in LowerFontNames

FontRead == "ANSILOVE_FONT" \in consulted

WarningLines ==
    {i \in DOMAIN stderr : stderr[i].msg = "unknown font, using CP437"}

PipelineSucceeded ==
    /\ Succeeded("loadfile")
    /\ Succeeded("ansi")
    /\ Succeeded("savefile")

\* C5: a font name that is set and equals no table name when letter case
\* is ignored (the empty string included) selects CP437 and writes exactly
\* one warning line, which names the value; the run goes on to loadfile and
\* its exit code depends on loadfile, ansi and savefile only.  An unset
\* font variable selects CP437 with no warning.
C5_UnknownFontFallsBack ==
    FontRead =>
      /\ (env["ANSILOVE_FONT"].set /\ ~FontKnown(env["ANSILOVE_FONT"].str)) =>
            /\ options.font = "ANSILOVE_FONT_CP437"
            /\ Cardinality(WarningLines) = 1
            /\ \A i \in WarningLines : stderr[i].arg = env["ANSILOVE_FONT"].str
            /\ Called("ansi") => renderOptions.font = "ANSILOVE_FONT_CP437"
            /\ Exited => /\ Called("loadfile")
                         /\ exitCode = 0 <=> PipelineSucceeded
      /\ ~env["ANSILOVE_FONT"].set =>
            /\ options.font = "ANSILOVE_FONT_CP437"
            /\ WarningLines = {}

C5_Witness ==
    /\ Exited
    /\ exitCode = 0
    /\ env["ANSILOVE_FONT"] = Val(<<86, 71, 65>>)
    /\ Cardinality(WarningLines) = 1
    /\ renderOptions.font = "ANSILOVE_FONT_CP437"

\* C6: a font name equal to a table name when letter case is ignored
\* selects the identifier paired with that very name, in every letter case
\* and with no warning; a table name that is a prefix or an extension of
\* another one selects its own entry.
C6_FontCaseInsensitive ==
    (FontRead /\ env["ANSILOVE_FONT"].set) =>
      LET given == Lower(env["ANSILOVE_FONT"].str)
      IN  \A i \in FontIndexes :
            given = LowerFontName[i] =>
              /\ options.font = font_map[i].value
              /\ WarningLines = {}
              /\ Called("ansi") => renderOptions.font = font_map[i].value

C6_Witness ==
    /\ Called("ansi")
    /\ env["ANSILOVE_FONT"] =
         Val(<<116, 111, 112, 97, 122, 95, 112, 108, 117, 115>>)
    /\ renderOptions.font = "ANSILOVE_FONT_TOPAZ_PLUS"

IceRead == "ANSILOVE_ICECOLORS" \in consulted

\* C7: the icecolors option is true exactly when ANSILOVE_ICECOLORS is set
\* to the one-character string "1"; any other value, or none, leaves it
\* false; the step writes nothing to stderr and does not end the run.
C7_IceColorsExactlyOne ==
    IceRead =>
      /\ options.icecolors <=> (env["ANSILOVE_ICECOLORS"] = Val(<<49>>))
      /\ Called("ansi") =>
           (renderOptions.icecolors <=> (env["ANSILOVE_ICECOLORS"] = Val(<<49>>)))
      /\ pc = "load" => /\ exitCode = -1
                        /\ Len(stderr) = Cardinality(WarningLines)
      /\ Exited => Called("loadfile")

C7_Witness ==
    /\ Called("ansi")
    /\ env["ANSILOVE_ICECOLORS"] = Val(<<48, 49>>)
    /\ ~renderOptions.icecolors

ModeRead == "ANSILOVE_MODE" \in consulted

\* the mode a value of ANSILOVE_MODE stands for, old when it stands for none
ModeFor(v, old) ==
    IF ~v.set THEN old
    ELSE IF Lower(v.str) = ModeCed THEN "ANSILOVE_MODE_CED"
    ELSE IF Lower(v.str) = ModeTransparent THEN "ANSILOVE_MODE_TRANSPARENT"
    ELSE IF Lower(v.str) = ModeWorkbench THEN "ANSILOVE_MODE_WORKBENCH"
    ELSE old

\* C8: ANSILOVE_MODE changes the mode only when it equals ced, transparent
\* or workbench with letter case ignored, and then to the matching mode;
\* any other value, or none, leaves the mode as ansilove_init set it; the
\* step writes nothing to stderr and does not end the run.
C8_ModeTokens ==
    ModeRead =>
      /\ options.mode = ModeFor(env["ANSILOVE_MODE"], initOptions.mode)
      /\ Called("ansi") =>
           renderOptions.mode = ModeFor(env["ANSILOVE_MODE"], initOptions.mode)
      /\ pc = "icecolors" => /\ exitCode = -1
                             /\ Len(stderr) = Cardinality(WarningLines)
      /\ Exited => Called("loadfile")

C8_Witness ==
    /\ Called("ansi")
    /\ env["ANSILOVE_MODE"] = Val(<<99, 101, 100, 120>>)
    /\ renderOptions.mode = initOptions.mode

\* C9: a run that returns non-zero has written exactly one stage line
\* (usage, init failed, load failed, render failed, save failed), the one
\* of the first stage that failed; a run that returns 0 has written none.
C9_OneStageDiagnostic ==
    Exited =>
      /\ exitCode # 0 =>
           /\ StageLineCount = 1
           /\ argc # 3 <=> Wrote("usage")
           /\ Failed("init") <=> Wrote("init failed")
           /\ Failed("loadfile") <=> Wrote("load failed")
           /\ Failed("ansi") <=> Wrote("render failed")
           /\ Failed("savefile") <=> Wrote("save failed")
           /\ \A i \in DOMAIN results : ~results[i].ok => i = Len(results)
      /\ exitCode = 0 => StageLineCount = 0

C9_Witness ==
    /\ Exited
    /\ exitCode = 1
    /\ Failed("savefile")
    /\ Wrote("save failed")
    /\ Cardinality(WarningLines) = 1

\* text of the form [+-]digits
IsDecimalText(s) ==
    /\ Len(s) >= 1
    /\ LET body == IF s[1] \in {43, 45} THEN Tail(s) ELSE s
       IN  /\ Len(body) >= 1
           /\ \A i \in DOMAIN body : isdigit(body[i])

RECURSIVE NatValue(_)
NatValue(d) ==
    IF d = <<>> THEN 0
    ELSE NatValue(SubSeq(d, 1, Len(d) - 1)) * 10 + (d[Len(d)] - 48)

\* the integer a decimal text denotes
DecimalValue(s) ==
    IF s[1] = 45 THEN 0 - NatValue(Tail(s))
    ELSE IF s[1] = 43 THEN NatValue(Tail(s))
    ELSE NatValue(s)

DenotesInteger(name) == env[name].set /\ IsDecimalText(env[name].str)

\* C10 as stated: SCALE, BITS or COLUMNS set to a decimal integer n gives
\* the option passed to ansilove_ansi the value n, whatever n is.
C10_OptionEqualsInteger ==
    Called("ansi") =>
      /\ DenotesInteger("ANSILOVE_SCALE") =>
           renderOptions.scale_factor = DecimalValue(env["ANSILOVE_SCALE"].str)
      /\ DenotesInteger("ANSILOVE_BITS") =>
           renderOptions.bits = DecimalValue(env["ANSILOVE_BITS"].str)
      /\ DenotesInteger("ANSILOVE_COLUMNS") =>
           renderOptions.columns = DecimalValue(env["ANSILOVE_COLUMNS"].str)

\* C10 amended: the option passed to ansilove_ansi is n narrowed to the
\* type of its field: for the scale factor and the bit mode the value in
\* 0..255 congruent to n modulo 256, for the column count the value in
\* -32768..32767 congruent to n modulo 65536 (so n itself when n is in
\* that range); an unset variable leaves the value ansilove_init stored.
C10_OptionIsNarrowedInteger ==
    Called("ansi") =>
      /\ DenotesInteger("ANSILOVE_SCALE") =>
           /\ renderOptions.scale_factor \in 0..255
           /\ (renderOptions.scale_factor
                 - DecimalValue(env["ANSILOVE_SCALE"].str)) % 256 = 0
      /\ DenotesInteger("ANSILOVE_BITS") =>
           /\ renderOptions.bits \in 0..255
           /\ (renderOptions.bits
                 - DecimalValue(env["ANSILOVE_BITS"].str)) % 256 = 0
      /\ DenotesInteger("ANSILOVE_COLUMNS") =>
           /\ renderOptions.columns \in -32768..32767
           /\ (renderOptions.columns
                 - DecimalValue(env["ANSILOVE_COLUMNS"].str)) % 65536 = 0
      /\ ~env["ANSILOVE_SCALE"].set =>
           renderOptions.scale_factor = initOptions.scale_factor
      /\ ~env["ANSILOVE_BITS"].set =>
           renderOptions.bits = initOptions.bits
      /\ ~env["ANSILOVE_COLUMNS"].set =>
           renderOptions.columns = initOptions.columns

C10_Witness ==
    /\ Called("ansi")
    /\ env["ANSILOVE_SCALE"] = Val(<<50, 53, 54>>)
    /\ renderOptions.scale_factor = 0
    /\ env["ANSILOVE_BITS"] = Val(<<57>>)
    /\ renderOptions.bits = 9
    /\ env["ANSILOVE_COLUMNS"] = Val(<<51, 50, 55, 54, 56>>)
    /\ renderOptions.columns = -32768

====
